---- MODULE Spec2Model ----
(***************************************************************************)
(* Lyrics-to-slides tools: the section parser (re.split on bracket         *)
(* markers), the font-size staircase, the single-song pipelines and the    *)
(* batch worker of the GUI.                                                *)
(*                                                                         *)
(* A Python str is modelled as a sequence of one-character strings.        *)
(***************************************************************************)
EXTENDS Integers, Sequences, FiniteSets, TLC

\* ------------------------------------------------------------------------
\* Bounds
\* ------------------------------------------------------------------------
\* Longest generated lyrics text (characters).
MaxLen == 7
\* Largest text length handed to the sizers, besides the far probe.
MaxTextLen == 1002
\* How far below zero the sizers' text lengths go.
NegSpan == 3
\* A length far beyond the last tier.
FarLen == 10000
\* Longest list of songs typed into the batch GUI.
MaxSongs == 2
\* How many times the generate button is pressed.
MaxBatches == 2
\* Longest generated song query (characters).
MaxQueryLen == 4
\* Longest Section sequence handed to the presentation builder.
MaxSections == 2

\* ------------------------------------------------------------------------
\* Characters and strings
\* ------------------------------------------------------------------------
NL == "\n"
\* Characters of the generated lyrics texts.
Alphabet == {"[", "]", "a", " "}
\* A character up to U+00FF is the string of that one character; every code
\* point above U+00FF is written by its name, "U+" and its hexadecimal
\* digits, four at least ("U+03A9", "U+1D400"), never by the character.
\* The characters str.strip() removes: U+0009 to U+000D, U+001C to U+0020,
\* U+0085, U+00A0, and the 17 whitespace code points above U+00FF.
Whitespace ==
  {"\t", NL, "", "\f", "\r", "", "", "", "", " ", "", " ",
   "U+1680", "U+2000", "U+2001", "U+2002", "U+2003",
   "U+2004", "U+2005", "U+2006", "U+2007", "U+2008",
   "U+2009", "U+200A", "U+2028", "U+2029", "U+202F",
   "U+205F", "U+3000"}

StringsUpTo(n) == UNION {[1..k -> Alphabet] : k \in 0..n}

\* ------------------------------------------------------------------------
\* String helpers
\* ------------------------------------------------------------------------
Min(S) == CHOOSE x \in S : \A y \in S : x <= y

Max(S) == CHOOSE x \in S : \A y \in S : x >= y

\* str.strip(): drop the leading and the trailing whitespace.
strip(s) ==
  LET keep == {k \in 1..Len(s) : s[k] \notin Whitespace}
  IN  IF keep = {} THEN <<>> ELSE SubSeq(s, Min(keep), Max(keep))

\* sep.join(list)
RECURSIVE join(_, _)
join(sep, list) ==
  IF list = <<>> THEN <<>>
  ELSE IF Len(list) = 1 THEN list[1]
  ELSE list[1] \o sep \o join(sep, Tail(list))

\* ------------------------------------------------------------------------
\* re.split(r'\[([^\]]+)\]', text)
\* ------------------------------------------------------------------------
\* Positions >= from where the pattern matches: a "[", then at least one
\* character other than "]", then a "]" (the greedy run stops at the first
\* "]", and no shorter run can be followed by one).
MatchStarts(s, from) ==
  {k \in from..Len(s) :
     /\ s[k] = "["
     /\ k + 1 <= Len(s)
     /\ s[k + 1] # "]"
     /\ \E j \in (k + 2)..Len(s) : s[j] = "]"}

\* End of the match that starts at k: the first "]" after the label.
MatchEnd(s, k) == Min({j \in (k + 2)..Len(s) : s[j] = "]"})

\* The pieces of s from position from on: text, label, text, label, ..., text.
RECURSIVE re_split_from(_, _)
re_split_from(s, from) ==
  LET starts == MatchStarts(s, from)
  IN  IF starts = {} THEN <<SubSeq(s, from, Len(s))>>
      ELSE LET k == Min(starts)
               j == MatchEnd(s, k)
           IN  <<SubSeq(s, from, k - 1), SubSeq(s, k + 1, j - 1)>>
                 \o re_split_from(s, j + 1)

\* re.split(r'(\[[^\]]+\])', text): the group captures the brackets too.
RECURSIVE re_split_brackets_from(_, _)
re_split_brackets_from(s, from) ==
  LET starts == MatchStarts(s, from)
  IN  IF starts = {} THEN <<SubSeq(s, from, Len(s))>>
      ELSE LET k == Min(starts)
               j == MatchEnd(s, k)
           IN  <<SubSeq(s, from, k - 1), SubSeq(s, k, j)>>
                 \o re_split_brackets_from(s, j + 1)

re_split_brackets(s) == re_split_brackets_from(s, 1)

re_split(s) == re_split_from(s, 1)

\* ------------------------------------------------------------------------
\* parse_lyrics_sections, GUI_BASED.py (strict) and scrappingPpptx.py (lenient)
\* A Section is the pair <<section_name, section_text>>.
\* ------------------------------------------------------------------------
\* for i in range(1, len(parts), 2): i is the 0-based index of a label.
RECURSIVE strict_loop(_, _, _)
strict_loop(parts, i, sections) ==
  IF i >= Len(parts) THEN sections
  ELSE LET section_name == strip(parts[i + 1])
           section_text == IF i + 1 < Len(parts) THEN strip(parts[i + 2]) ELSE <<>>
       IN  strict_loop(parts, i + 2,
                       IF section_text # <<>>
                       THEN Append(sections, <<section_name, section_text>>)
                       ELSE sections)

\* The strict loop without the "if section_text" filter.
RECURSIVE strict_loop_unfiltered(_, _, _)
strict_loop_unfiltered(parts, i, sections) ==
  IF i >= Len(parts) THEN sections
  ELSE LET section_name == strip(parts[i + 1])
           section_text == IF i + 1 < Len(parts) THEN strip(parts[i + 2]) ELSE <<>>
       IN  strict_loop_unfiltered(parts, i + 2,
                                  Append(sections, <<section_name, section_text>>))

parse_lyrics_sections_GUI_BASED_unfiltered(lyrics_text) ==
  strict_loop_unfiltered(re_split(lyrics_text), 1, <<>>)

\* The strict parser keeping the text before the first marker.
parse_lyrics_sections_GUI_BASED_leading(lyrics_text) ==
  LET parts == re_split(lyrics_text)
      leading == strip(parts[1])
  IN  strict_loop(parts, 1,
                  IF leading # <<>> THEN <<<<<<>>, leading>>>> ELSE <<>>)

parse_lyrics_sections_GUI_BASED(lyrics_text) ==
  strict_loop(re_split(lyrics_text), 1, <<>>)

\* for i, part in enumerate(parts): i is 0-based. current_section is None or
\* a non-empty label; <<>> stands for None (both are falsy).
RECURSIVE lenient_loop(_, _, _, _)
lenient_loop(parts, i, current_section, sections) ==
  IF i >= Len(parts) THEN sections
  ELSE LET part == strip(parts[i + 1])
       IN  IF part = <<>> THEN lenient_loop(parts, i + 1, current_section, sections)
           ELSE IF i % 2 = 1 THEN lenient_loop(parts, i + 1, part, sections)
           ELSE IF current_section # <<>>
                THEN lenient_loop(parts, i + 1, <<>>,
                                  Append(sections, <<current_section, part>>))
                ELSE lenient_loop(parts, i + 1, current_section,
                                  Append(sections, <<<<>>, part>>))

\* The lenient loop without the "if not part: continue" skip.
RECURSIVE lenient_loop_noskip(_, _, _, _)
lenient_loop_noskip(parts, i, current_section, sections) ==
  IF i >= Len(parts) THEN sections
  ELSE LET part == strip(parts[i + 1])
       IN  IF i % 2 = 1 THEN lenient_loop_noskip(parts, i + 1, part, sections)
           ELSE IF current_section # <<>>
                THEN lenient_loop_noskip(parts, i + 1, <<>>,
                                         Append(sections, <<current_section, part>>))
                ELSE lenient_loop_noskip(parts, i + 1, current_section,
                                         Append(sections, <<<<>>, part>>))

parse_lyrics_sections_scrappingPpptx_noskip(lyrics_text) ==
  lenient_loop_noskip(re_split(lyrics_text), 0, <<>>, <<>>)

\* The lenient loop dropping content that has no section header.
RECURSIVE lenient_loop_headed(_, _, _, _)
lenient_loop_headed(parts, i, current_section, sections) ==
  IF i >= Len(parts) THEN sections
  ELSE LET part == strip(parts[i + 1])
       IN  IF part = <<>> THEN lenient_loop_headed(parts, i + 1, current_section, sections)
           ELSE IF i % 2 = 1 THEN lenient_loop_headed(parts, i + 1, part, sections)
           ELSE IF current_section # <<>>
                THEN lenient_loop_headed(parts, i + 1, <<>>,
                                         Append(sections, <<current_section, part>>))
                ELSE lenient_loop_headed(parts, i + 1, current_section, sections)

parse_lyrics_sections_scrappingPpptx_headed(lyrics_text) ==
  lenient_loop_headed(re_split(lyrics_text), 0, <<>>, <<>>)

\* The lenient loop in which a marker does not replace a pending label.
RECURSIVE lenient_loop_keepfirst(_, _, _, _)
lenient_loop_keepfirst(parts, i, current_section, sections) ==
  IF i >= Len(parts) THEN sections
  ELSE LET part == strip(parts[i + 1])
       IN  IF part = <<>>
           THEN lenient_loop_keepfirst(parts, i + 1, current_section, sections)
           ELSE IF i % 2 = 1
                THEN lenient_loop_keepfirst(parts, i + 1,
                       IF current_section # <<>> THEN current_section ELSE part,
                       sections)
           ELSE IF current_section # <<>>
                THEN lenient_loop_keepfirst(parts, i + 1, <<>>,
                                            Append(sections, <<current_section, part>>))
                ELSE lenient_loop_keepfirst(parts, i + 1, current_section,
                                            Append(sections, <<<<>>, part>>))

parse_lyrics_sections_scrappingPpptx_keepfirst(lyrics_text) ==
  lenient_loop_keepfirst(re_split(lyrics_text), 0, <<>>, <<>>)

parse_lyrics_sections_scrappingPpptx(lyrics_text) ==
  lenient_loop(re_split(lyrics_text), 0, <<>>, <<>>)

\* The document rebuilt from a Section sequence: each label wrapped in
\* brackets and followed by its body, in order.
RECURSIVE Rebuild(_)
Rebuild(sections) ==
  IF sections = <<>> THEN <<>>
  ELSE <<"[">> \o sections[1][1] \o <<"]">> \o sections[1][2] \o Rebuild(Tail(sections))

\* ------------------------------------------------------------------------
\* calculate_font_size, GUI_BASED.py and scrappingPpptx.py
\* ------------------------------------------------------------------------
\* The GUI staircase with an inclusive first boundary.
calculate_font_size_GUI_BASED_inclusive(text_length) ==
  IF text_length <= 80 THEN 48
  ELSE IF text_length < 120 THEN 44
  ELSE IF text_length < 180 THEN 40
  ELSE IF text_length < 250 THEN 36
  ELSE IF text_length < 350 THEN 32
  ELSE IF text_length < 450 THEN 28
  ELSE IF text_length < 600 THEN 26
  ELSE IF text_length < 800 THEN 24
  ELSE IF text_length < 1000 THEN 22
  ELSE 20

calculate_font_size_GUI_BASED(text_length) ==
  IF text_length < 80 THEN 48
  ELSE IF text_length < 120 THEN 44
  ELSE IF text_length < 180 THEN 40
  ELSE IF text_length < 250 THEN 36
  ELSE IF text_length < 350 THEN 32
  ELSE IF text_length < 450 THEN 28
  ELSE IF text_length < 600 THEN 26
  ELSE IF text_length < 800 THEN 24
  ELSE IF text_length < 1000 THEN 22
  ELSE 20

\* The single-song staircase with two tiers exchanged.
calculate_font_size_scrappingPpptx_swapped(text_length) ==
  IF text_length < 100 THEN 44
  ELSE IF text_length < 200 THEN 36
  ELSE IF text_length < 300 THEN 28
  ELSE IF text_length < 500 THEN 32
  ELSE IF text_length < 700 THEN 24
  ELSE 20

calculate_font_size_scrappingPpptx(text_length) ==
  IF text_length < 100 THEN 44
  ELSE IF text_length < 200 THEN 36
  ELSE IF text_length < 300 THEN 32
  ELSE IF text_length < 500 THEN 28
  ELSE IF text_length < 700 THEN 24
  ELSE 20

\* ------------------------------------------------------------------------
\* search_genius_lyrics. The network is the record env: what the search
\* request, the JSON and the lyrics page turn out to be.
\*   search: "request_error" (requests.RequestException), "malformed" (the
\*           JSON lacks the keys read, a KeyError), "no_song", "hit"
\*   page:   "request_error", "ok"
\*   containers: the texts of the lyrics containers of the page
\* The two modules' functions take the same branches (GUI_BASED.py also
\* reduces the title to ASCII), so one operator serves both.
\* The result is a record: found (it is not None), has_lyrics (its 'lyrics'
\* is not None), raised (an exception left the function).
\* ------------------------------------------------------------------------
ResultNone ==
  [found |-> FALSE, has_lyrics |-> FALSE, lyrics |-> <<>>, title |-> <<>>, raised |-> FALSE]

ResultRaised ==
  [found |-> FALSE, has_lyrics |-> FALSE, lyrics |-> <<>>, title |-> <<>>, raised |-> TRUE]

search_genius_lyrics(env) ==
  IF env.search = "request_error" THEN ResultNone
  ELSE IF env.search = "malformed" THEN ResultRaised
  ELSE IF env.search = "no_song" THEN ResultNone
  ELSE IF env.page = "request_error" THEN ResultNone
  ELSE IF env.containers = <<>>
       THEN [found |-> TRUE, has_lyrics |-> FALSE, lyrics |-> <<>>,
             title |-> env.title, raised |-> FALSE]
       ELSE [found |-> TRUE, has_lyrics |-> TRUE,
             lyrics |-> strip(join(<<NL, NL>>, env.containers)),
             title |-> env.title, raised |-> FALSE]

\* "not result or not result['lyrics']"
NoLyrics(result) == ~result.found \/ ~result.has_lyrics \/ result.lyrics = <<>>

\* ------------------------------------------------------------------------
\* create_lyrics_presentation: the slides handed to prs.save
\* ------------------------------------------------------------------------
TitleSlide(song_title) ==
  [kind |-> "title", heading |-> <<>>, body |-> song_title, font_size |-> 54]

\* GUI_BASED.py: no heading on a section slide.
create_lyrics_presentation_GUI_BASED(song_title, sections) ==
  <<TitleSlide(song_title)>> \o
  [n \in 1..Len(sections) |->
     [kind |-> "section", heading |-> <<>>, body |-> sections[n][2],
      font_size |-> calculate_font_size_GUI_BASED(Len(sections[n][2]))]]

\* The builder of scrappingPpptx.py without the "if section_name" test.
create_lyrics_presentation_scrappingPpptx_always(song_title, sections) ==
  <<TitleSlide(song_title)>> \o
  [n \in 1..Len(sections) |->
     [kind |-> "section",
      heading |-> <<"[">> \o sections[n][1] \o <<"]">>,
      body |-> sections[n][2],
      font_size |-> calculate_font_size_scrappingPpptx(Len(sections[n][2]))]]

\* scrappingPpptx.py: the heading "[name]" when the name is non-empty.
create_lyrics_presentation_scrappingPpptx(song_title, sections) ==
  <<TitleSlide(song_title)>> \o
  [n \in 1..Len(sections) |->
     [kind |-> "section",
      heading |-> IF sections[n][1] # <<>>
                  THEN <<"[">> \o sections[n][1] \o <<"]">> ELSE <<>>,
      body |-> sections[n][2],
      font_size |-> calculate_font_size_scrappingPpptx(Len(sections[n][2]))]]

\* ------------------------------------------------------------------------
\* process_single_song (GUI_BASED.py) and main (scrappingPpptx.py)
\* ------------------------------------------------------------------------
\* The name of a code point above U+00FF.
HexDigits ==
  <<"0", "1", "2", "3", "4", "5", "6", "7", "8", "9", "A", "B", "C", "D", "E", "F">>

RECURSIVE Hex(_, _)
Hex(n, width) ==
  IF n < 16 /\ width <= 1 THEN HexDigits[n + 1]
  ELSE Hex(n \div 16, width - 1) \o HexDigits[(n % 16) + 1]

CodePointName(cp) == "U+" \o Hex(cp, 4)

\* str.isalnum() up to U+00FF: the ASCII letters and digits, and the
\* letters, superscript digits and fractions of Latin-1.
AlnumLatin1 ==
  {"0", "1", "2", "3", "4", "5", "6", "7", "8", "9", "A", "B", "C", "D", "E", "F",
   "G", "H", "I", "J", "K", "L", "M", "N", "O", "P", "Q", "R", "S", "T", "U", "V",
   "W", "X", "Y", "Z", "a", "b", "c", "d", "e", "f", "g", "h", "i", "j", "k", "l",
   "m", "n", "o", "p", "q", "r", "s", "t", "u", "v", "w", "x", "y", "z",
   "ª", "²", "³", "µ", "¹", "º", "¼", "½", "¾", "À", "Á", "Â", "Ã", "Ä", "Å", "Æ",
   "Ç", "È", "É", "Ê", "Ë", "Ì", "Í", "Î", "Ï", "Ð", "Ñ", "Ò", "Ó", "Ô", "Õ", "Ö",
   "Ø", "Ù", "Ú", "Û", "Ü", "Ý", "Þ", "ß", "à", "á", "â", "ã", "ä", "å", "æ", "ç",
   "è", "é", "ê", "ë", "ì", "í", "î", "ï", "ð", "ñ", "ò", "ó", "ô", "õ", "ö", "ø",
   "ù", "ú", "û", "ü", "ý", "þ", "ÿ"}

\* str.isalnum() above U+00FF: the 723 ranges of code points, first and last,
\* that hold the 133414 characters it accepts there.
AlnumRanges ==
  {<<256, 705>>, <<710, 721>>, <<736, 740>>, <<748, 748>>, <<750, 750>>,
   <<880, 884>>, <<886, 887>>, <<890, 893>>, <<895, 895>>, <<902, 902>>,
   <<904, 906>>, <<908, 908>>, <<910, 929>>, <<931, 1013>>, <<1015, 1153>>,
   <<1162, 1327>>, <<1329, 1366>>, <<1369, 1369>>, <<1376, 1416>>,
   <<1488, 1514>>, <<1519, 1522>>, <<1568, 1610>>, <<1632, 1641>>,
   <<1646, 1647>>, <<1649, 1747>>, <<1749, 1749>>, <<1765, 1766>>,
   <<1774, 1788>>, <<1791, 1791>>, <<1808, 1808>>, <<1810, 1839>>,
   <<1869, 1957>>, <<1969, 1969>>, <<1984, 2026>>, <<2036, 2037>>,
   <<2042, 2042>>, <<2048, 2069>>, <<2074, 2074>>, <<2084, 2084>>,
   <<2088, 2088>>, <<2112, 2136>>, <<2144, 2154>>, <<2160, 2183>>,
   <<2185, 2190>>, <<2208, 2249>>, <<2308, 2361>>, <<2365, 2365>>,
   <<2384, 2384>>, <<2392, 2401>>, <<2406, 2415>>, <<2417, 2432>>,
   <<2437, 2444>>, <<2447, 2448>>, <<2451, 2472>>, <<2474, 2480>>,
   <<2482, 2482>>, <<2486, 2489>>, <<2493, 2493>>, <<2510, 2510>>,
   <<2524, 2525>>, <<2527, 2529>>, <<2534, 2545>>, <<2548, 2553>>,
   <<2556, 2556>>, <<2565, 2570>>, <<2575, 2576>>, <<2579, 2600>>,
   <<2602, 2608>>, <<2610, 2611>>, <<2613, 2614>>, <<2616, 2617>>,
   <<2649, 2652>>, <<2654, 2654>>, <<2662, 2671>>, <<2674, 2676>>,
   <<2693, 2701>>, <<2703, 2705>>, <<2707, 2728>>, <<2730, 2736>>,
   <<2738, 2739>>, <<2741, 2745>>, <<2749, 2749>>, <<2768, 2768>>,
   <<2784, 2785>>, <<2790, 2799>>, <<2809, 2809>>, <<2821, 2828>>,
   <<2831, 2832>>, <<2835, 2856>>, <<2858, 2864>>, <<2866, 2867>>,
   <<2869, 2873>>, <<2877, 2877>>, <<2908, 2909>>, <<2911, 2913>>,
   <<2918, 2927>>, <<2929, 2935>>, <<2947, 2947>>, <<2949, 2954>>,
   <<2958, 2960>>, <<2962, 2965>>, <<2969, 2970>>, <<2972, 2972>>,
   <<2974, 2975>>, <<2979, 2980>>, <<2984, 2986>>, <<2990, 3001>>,
   <<3024, 3024>>, <<3046, 3058>>, <<3077, 3084>>, <<3086, 3088>>,
   <<3090, 3112>>, <<3114, 3129>>, <<3133, 3133>>, <<3160, 3162>>,
   <<3165, 3165>>, <<3168, 3169>>, <<3174, 3183>>, <<3192, 3198>>,
   <<3200, 3200>>, <<3205, 3212>>, <<3214, 3216>>, <<3218, 3240>>,
   <<3242, 3251>>, <<3253, 3257>>, <<3261, 3261>>, <<3293, 3294>>,
   <<3296, 3297>>, <<3302, 3311>>, <<3313, 3314>>, <<3332, 3340>>,
   <<3342, 3344>>, <<3346, 3386>>, <<3389, 3389>>, <<3406, 3406>>,
   <<3412, 3414>>, <<3416, 3425>>, <<3430, 3448>>, <<3450, 3455>>,
   <<3461, 3478>>, <<3482, 3505>>, <<3507, 3515>>, <<3517, 3517>>,
   <<3520, 3526>>, <<3558, 3567>>, <<3585, 3632>>, <<3634, 3635>>,
   <<3648, 3654>>, <<3664, 3673>>, <<3713, 3714>>, <<3716, 3716>>,
   <<3718, 3722>>, <<3724, 3747>>, <<3749, 3749>>, <<3751, 3760>>,
   <<3762, 3763>>, <<3773, 3773>>, <<3776, 3780>>, <<3782, 3782>>,
   <<3792, 3801>>, <<3804, 3807>>, <<3840, 3840>>, <<3872, 3891>>,
   <<3904, 3911>>, <<3913, 3948>>, <<3976, 3980>>, <<4096, 4138>>,
   <<4159, 4169>>, <<4176, 4181>>, <<4186, 4189>>, <<4193, 4193>>,
   <<4197, 4198>>, <<4206, 4208>>, <<4213, 4225>>, <<4238, 4238>>,
   <<4240, 4249>>, <<4256, 4293>>, <<4295, 4295>>, <<4301, 4301>>,
   <<4304, 4346>>, <<4348, 4680>>, <<4682, 4685>>, <<4688, 4694>>,
   <<4696, 4696>>, <<4698, 4701>>, <<4704, 4744>>, <<4746, 4749>>,
   <<4752, 4784>>, <<4786, 4789>>, <<4792, 4798>>, <<4800, 4800>>,
   <<4802, 4805>>, <<4808, 4822>>, <<4824, 4880>>, <<4882, 4885>>,
   <<4888, 4954>>, <<4969, 4988>>, <<4992, 5007>>, <<5024, 5109>>,
   <<5112, 5117>>, <<5121, 5740>>, <<5743, 5759>>, <<5761, 5786>>,
   <<5792, 5866>>, <<5870, 5880>>, <<5888, 5905>>, <<5919, 5937>>,
   <<5952, 5969>>, <<5984, 5996>>, <<5998, 6000>>, <<6016, 6067>>,
   <<6103, 6103>>, <<6108, 6108>>, <<6112, 6121>>, <<6128, 6137>>,
   <<6160, 6169>>, <<6176, 6264>>, <<6272, 6276>>, <<6279, 6312>>,
   <<6314, 6314>>, <<6320, 6389>>, <<6400, 6430>>, <<6470, 6509>>,
   <<6512, 6516>>, <<6528, 6571>>, <<6576, 6601>>, <<6608, 6618>>,
   <<6656, 6678>>, <<6688, 6740>>, <<6784, 6793>>, <<6800, 6809>>,
   <<6823, 6823>>, <<6917, 6963>>, <<6981, 6988>>, <<6992, 7001>>,
   <<7043, 7072>>, <<7086, 7141>>, <<7168, 7203>>, <<7232, 7241>>,
   <<7245, 7293>>, <<7296, 7304>>, <<7312, 7354>>, <<7357, 7359>>,
   <<7401, 7404>>, <<7406, 7411>>, <<7413, 7414>>, <<7418, 7418>>,
   <<7424, 7615>>, <<7680, 7957>>, <<7960, 7965>>, <<7968, 8005>>,
   <<8008, 8013>>, <<8016, 8023>>, <<8025, 8025>>, <<8027, 8027>>,
   <<8029, 8029>>, <<8031, 8061>>, <<8064, 8116>>, <<8118, 8124>>,
   <<8126, 8126>>, <<8130, 8132>>, <<8134, 8140>>, <<8144, 8147>>,
   <<8150, 8155>>, <<8160, 8172>>, <<8178, 8180>>, <<8182, 8188>>,
   <<8304, 8305>>, <<8308, 8313>>, <<8319, 8329>>, <<8336, 8348>>,
   <<8450, 8450>>, <<8455, 8455>>, <<8458, 8467>>, <<8469, 8469>>,
   <<8473, 8477>>, <<8484, 8484>>, <<8486, 8486>>, <<8488, 8488>>,
   <<8490, 8493>>, <<8495, 8505>>, <<8508, 8511>>, <<8517, 8521>>,
   <<8526, 8526>>, <<8528, 8585>>, <<9312, 9371>>, <<9450, 9471>>,
   <<10102, 10131>>, <<11264, 11492>>, <<11499, 11502>>, <<11506, 11507>>,
   <<11517, 11517>>, <<11520, 11557>>, <<11559, 11559>>, <<11565, 11565>>,
   <<11568, 11623>>, <<11631, 11631>>, <<11648, 11670>>, <<11680, 11686>>,
   <<11688, 11694>>, <<11696, 11702>>, <<11704, 11710>>, <<11712, 11718>>,
   <<11720, 11726>>, <<11728, 11734>>, <<11736, 11742>>, <<11823, 11823>>,
   <<12293, 12295>>, <<12321, 12329>>, <<12337, 12341>>, <<12344, 12348>>,
   <<12353, 12438>>, <<12445, 12447>>, <<12449, 12538>>, <<12540, 12543>>,
   <<12549, 12591>>, <<12593, 12686>>, <<12690, 12693>>, <<12704, 12735>>,
   <<12784, 12799>>, <<12832, 12841>>, <<12872, 12879>>, <<12881, 12895>>,
   <<12928, 12937>>, <<12977, 12991>>, <<13312, 19903>>, <<19968, 42124>>,
   <<42192, 42237>>, <<42240, 42508>>, <<42512, 42539>>, <<42560, 42606>>,
   <<42623, 42653>>, <<42656, 42735>>, <<42775, 42783>>, <<42786, 42888>>,
   <<42891, 42954>>, <<42960, 42961>>, <<42963, 42963>>, <<42965, 42969>>,
   <<42994, 43009>>, <<43011, 43013>>, <<43015, 43018>>, <<43020, 43042>>,
   <<43056, 43061>>, <<43072, 43123>>, <<43138, 43187>>, <<43216, 43225>>,
   <<43250, 43255>>, <<43259, 43259>>, <<43261, 43262>>, <<43264, 43301>>,
   <<43312, 43334>>, <<43360, 43388>>, <<43396, 43442>>, <<43471, 43481>>,
   <<43488, 43492>>, <<43494, 43518>>, <<43520, 43560>>, <<43584, 43586>>,
   <<43588, 43595>>, <<43600, 43609>>, <<43616, 43638>>, <<43642, 43642>>,
   <<43646, 43695>>, <<43697, 43697>>, <<43701, 43702>>, <<43705, 43709>>,
   <<43712, 43712>>, <<43714, 43714>>, <<43739, 43741>>, <<43744, 43754>>,
   <<43762, 43764>>, <<43777, 43782>>, <<43785, 43790>>, <<43793, 43798>>,
   <<43808, 43814>>, <<43816, 43822>>, <<43824, 43866>>, <<43868, 43881>>,
   <<43888, 44002>>, <<44016, 44025>>, <<44032, 55203>>, <<55216, 55238>>,
   <<55243, 55291>>, <<63744, 64109>>, <<64112, 64217>>, <<64256, 64262>>,
   <<64275, 64279>>, <<64285, 64285>>, <<64287, 64296>>, <<64298, 64310>>,
   <<64312, 64316>>, <<64318, 64318>>, <<64320, 64321>>, <<64323, 64324>>,
   <<64326, 64433>>, <<64467, 64829>>, <<64848, 64911>>, <<64914, 64967>>,
   <<65008, 65019>>, <<65136, 65140>>, <<65142, 65276>>, <<65296, 65305>>,
   <<65313, 65338>>, <<65345, 65370>>, <<65382, 65470>>, <<65474, 65479>>,
   <<65482, 65487>>, <<65490, 65495>>, <<65498, 65500>>, <<65536, 65547>>,
   <<65549, 65574>>, <<65576, 65594>>, <<65596, 65597>>, <<65599, 65613>>,
   <<65616, 65629>>, <<65664, 65786>>, <<65799, 65843>>, <<65856, 65912>>,
   <<65930, 65931>>, <<66176, 66204>>, <<66208, 66256>>, <<66273, 66299>>,
   <<66304, 66339>>, <<66349, 66378>>, <<66384, 66421>>, <<66432, 66461>>,
   <<66464, 66499>>, <<66504, 66511>>, <<66513, 66517>>, <<66560, 66717>>,
   <<66720, 66729>>, <<66736, 66771>>, <<66776, 66811>>, <<66816, 66855>>,
   <<66864, 66915>>, <<66928, 66938>>, <<66940, 66954>>, <<66956, 66962>>,
   <<66964, 66965>>, <<66967, 66977>>, <<66979, 66993>>, <<66995, 67001>>,
   <<67003, 67004>>, <<67072, 67382>>, <<67392, 67413>>, <<67424, 67431>>,
   <<67456, 67461>>, <<67463, 67504>>, <<67506, 67514>>, <<67584, 67589>>,
   <<67592, 67592>>, <<67594, 67637>>, <<67639, 67640>>, <<67644, 67644>>,
   <<67647, 67669>>, <<67672, 67702>>, <<67705, 67742>>, <<67751, 67759>>,
   <<67808, 67826>>, <<67828, 67829>>, <<67835, 67867>>, <<67872, 67897>>,
   <<67968, 68023>>, <<68028, 68047>>, <<68050, 68096>>, <<68112, 68115>>,
   <<68117, 68119>>, <<68121, 68149>>, <<68160, 68168>>, <<68192, 68222>>,
   <<68224, 68255>>, <<68288, 68295>>, <<68297, 68324>>, <<68331, 68335>>,
   <<68352, 68405>>, <<68416, 68437>>, <<68440, 68466>>, <<68472, 68497>>,
   <<68521, 68527>>, <<68608, 68680>>, <<68736, 68786>>, <<68800, 68850>>,
   <<68858, 68899>>, <<68912, 68921>>, <<69216, 69246>>, <<69248, 69289>>,
   <<69296, 69297>>, <<69376, 69415>>, <<69424, 69445>>, <<69457, 69460>>,
   <<69488, 69505>>, <<69552, 69579>>, <<69600, 69622>>, <<69635, 69687>>,
   <<69714, 69743>>, <<69745, 69746>>, <<69749, 69749>>, <<69763, 69807>>,
   <<69840, 69864>>, <<69872, 69881>>, <<69891, 69926>>, <<69942, 69951>>,
   <<69956, 69956>>, <<69959, 69959>>, <<69968, 70002>>, <<70006, 70006>>,
   <<70019, 70066>>, <<70081, 70084>>, <<70096, 70106>>, <<70108, 70108>>,
   <<70113, 70132>>, <<70144, 70161>>, <<70163, 70187>>, <<70272, 70278>>,
   <<70280, 70280>>, <<70282, 70285>>, <<70287, 70301>>, <<70303, 70312>>,
   <<70320, 70366>>, <<70384, 70393>>, <<70405, 70412>>, <<70415, 70416>>,
   <<70419, 70440>>, <<70442, 70448>>, <<70450, 70451>>, <<70453, 70457>>,
   <<70461, 70461>>, <<70480, 70480>>, <<70493, 70497>>, <<70656, 70708>>,
   <<70727, 70730>>, <<70736, 70745>>, <<70751, 70753>>, <<70784, 70831>>,
   <<70852, 70853>>, <<70855, 70855>>, <<70864, 70873>>, <<71040, 71086>>,
   <<71128, 71131>>, <<71168, 71215>>, <<71236, 71236>>, <<71248, 71257>>,
   <<71296, 71338>>, <<71352, 71352>>, <<71360, 71369>>, <<71424, 71450>>,
   <<71472, 71483>>, <<71488, 71494>>, <<71680, 71723>>, <<71840, 71922>>,
   <<71935, 71942>>, <<71945, 71945>>, <<71948, 71955>>, <<71957, 71958>>,
   <<71960, 71983>>, <<71999, 71999>>, <<72001, 72001>>, <<72016, 72025>>,
   <<72096, 72103>>, <<72106, 72144>>, <<72161, 72161>>, <<72163, 72163>>,
   <<72192, 72192>>, <<72203, 72242>>, <<72250, 72250>>, <<72272, 72272>>,
   <<72284, 72329>>, <<72349, 72349>>, <<72368, 72440>>, <<72704, 72712>>,
   <<72714, 72750>>, <<72768, 72768>>, <<72784, 72812>>, <<72818, 72847>>,
   <<72960, 72966>>, <<72968, 72969>>, <<72971, 73008>>, <<73030, 73030>>,
   <<73040, 73049>>, <<73056, 73061>>, <<73063, 73064>>, <<73066, 73097>>,
   <<73112, 73112>>, <<73120, 73129>>, <<73440, 73458>>, <<73648, 73648>>,
   <<73664, 73684>>, <<73728, 74649>>, <<74752, 74862>>, <<74880, 75075>>,
   <<77712, 77808>>, <<77824, 78894>>, <<82944, 83526>>, <<92160, 92728>>,
   <<92736, 92766>>, <<92768, 92777>>, <<92784, 92862>>, <<92864, 92873>>,
   <<92880, 92909>>, <<92928, 92975>>, <<92992, 92995>>, <<93008, 93017>>,
   <<93019, 93025>>, <<93027, 93047>>, <<93053, 93071>>, <<93760, 93846>>,
   <<93952, 94026>>, <<94032, 94032>>, <<94099, 94111>>, <<94176, 94177>>,
   <<94179, 94179>>, <<94208, 100343>>, <<100352, 101589>>, <<101632, 101640>>,
   <<110576, 110579>>, <<110581, 110587>>, <<110589, 110590>>,
   <<110592, 110882>>, <<110928, 110930>>, <<110948, 110951>>,
   <<110960, 111355>>, <<113664, 113770>>, <<113776, 113788>>,
   <<113792, 113800>>, <<113808, 113817>>, <<119520, 119539>>,
   <<119648, 119672>>, <<119808, 119892>>, <<119894, 119964>>,
   <<119966, 119967>>, <<119970, 119970>>, <<119973, 119974>>,
   <<119977, 119980>>, <<119982, 119993>>, <<119995, 119995>>,
   <<119997, 120003>>, <<120005, 120069>>, <<120071, 120074>>,
   <<120077, 120084>>, <<120086, 120092>>, <<120094, 120121>>,
   <<120123, 120126>>, <<120128, 120132>>, <<120134, 120134>>,
   <<120138, 120144>>, <<120146, 120485>>, <<120488, 120512>>,
   <<120514, 120538>>, <<120540, 120570>>, <<120572, 120596>>,
   <<120598, 120628>>, <<120630, 120654>>, <<120656, 120686>>,
   <<120688, 120712>>, <<120714, 120744>>, <<120746, 120770>>,
   <<120772, 120779>>, <<120782, 120831>>, <<122624, 122654>>,
   <<123136, 123180>>, <<123191, 123197>>, <<123200, 123209>>,
   <<123214, 123214>>, <<123536, 123565>>, <<123584, 123627>>,
   <<123632, 123641>>, <<124896, 124902>>, <<124904, 124907>>,
   <<124909, 124910>>, <<124912, 124926>>, <<124928, 125124>>,
   <<125127, 125135>>, <<125184, 125251>>, <<125259, 125259>>,
   <<125264, 125273>>, <<126065, 126123>>, <<126125, 126127>>,
   <<126129, 126132>>, <<126209, 126253>>, <<126255, 126269>>,
   <<126464, 126467>>, <<126469, 126495>>, <<126497, 126498>>,
   <<126500, 126500>>, <<126503, 126503>>, <<126505, 126514>>,
   <<126516, 126519>>, <<126521, 126521>>, <<126523, 126523>>,
   <<126530, 126530>>, <<126535, 126535>>, <<126537, 126537>>,
   <<126539, 126539>>, <<126541, 126543>>, <<126545, 126546>>,
   <<126548, 126548>>, <<126551, 126551>>, <<126553, 126553>>,
   <<126555, 126555>>, <<126557, 126557>>, <<126559, 126559>>,
   <<126561, 126562>>, <<126564, 126564>>, <<126567, 126570>>,
   <<126572, 126578>>, <<126580, 126583>>, <<126585, 126588>>,
   <<126590, 126590>>, <<126592, 126601>>, <<126603, 126619>>,
   <<126625, 126627>>, <<126629, 126633>>, <<126635, 126651>>,
   <<127232, 127244>>, <<130032, 130041>>, <<131072, 173791>>,
   <<173824, 177976>>, <<177984, 178205>>, <<178208, 183969>>,
   <<183984, 191456>>, <<194560, 195101>>, <<196608, 201546>>}

\* The characters c with c.isalnum().
Alnum ==
  AlnumLatin1 \cup {CodePointName(cp) : cp \in UNION {r[1]..r[2] : r \in AlnumRanges}}

\* The stem without the strip() between the filter and the replace.
safe_filename_unstripped(song_query) ==
  LET kept == SelectSeq(song_query, LAMBDA c : c \in Alnum \/ c \in {" ", "-", "_"})
  IN  [k \in 1..Len(kept) |-> IF kept[k] = " " THEN "_" ELSE kept[k]]

\* The stem of the output file of a query.
safe_filename(song_query) ==
  LET kept == SelectSeq(song_query, LAMBDA c : c \in Alnum \/ c \in {" ", "-", "_"})
      stripped == strip(kept)
  IN  [k \in 1..Len(stripped) |-> IF stripped[k] = " " THEN "_" ELSE stripped[k]]

\* os.path.join(a, p) on POSIX, for a relative p.
os_path_join(a, p) ==
  IF a = <<>> \/ a[Len(a)] = "/" THEN a \o p ELSE a \o <<"/">> \o p

PptxSuffix == <<".", "p", "p", "t", "x">>

\* What prs.save(output_file) can do. It belongs to python-pptx, whose code
\* is not in this repository: it writes the presentation ("saved"), or
\* raises an OSError having written nothing ("raised"), or raises one having
\* left a file that holds no presentation ("raised_partial").
SaveOutcomes == {"saved", "raised", "raised_partial"}

\* The content of a file that holds no presentation.
NoPresentation == <<>>

\* The files prs.save(output_file) leaves.
prs_save(output_file, slides, save) ==
  CASE save = "saved" -> <<[path |-> output_file, slides |-> slides]>>
    [] save = "raised" -> <<>>
    [] save = "raised_partial" -> <<[path |-> output_file, slides |-> NoPresentation]>>

\* Whether an exception leaves create_lyrics_presentation: prs.save raises,
\* or it returns and the print of the check mark that follows raises a
\* UnicodeEncodeError, the file being written. The other prints hold only
\* the characters of the title, the labels and the output file.
create_lyrics_presentation_raises(save, encodes) == save # "saved" \/ ~encodes

\* The outcome of one call: ret is the return value ("True", "False",
\* "None", or "raised" when an exception leaves the call), builds the calls
\* of create_lyrics_presentation it made, saved the files it wrote.
Outcome(song_query, result, ret, builds, saved) ==
  [query |-> song_query, result |-> result, ret |-> ret, builds |-> builds, saved |-> saved]

\* process_single_song testing only "not result": a None 'lyrics' then
\* makes re.split raise a TypeError, which the except clause catches.
process_single_song_unchecked(song_query, output_folder, env, save, encodes) ==
  LET result == search_genius_lyrics(env)
  IN  IF result.raised THEN Outcome(song_query, result, "False", <<>>, <<>>)
      ELSE IF ~result.found THEN Outcome(song_query, result, "False", <<>>, <<>>)
      ELSE IF ~result.has_lyrics THEN Outcome(song_query, result, "False", <<>>, <<>>)
      ELSE LET sections == parse_lyrics_sections_GUI_BASED(result.lyrics)
               output_file == os_path_join(output_folder, safe_filename(song_query) \o PptxSuffix)
               slides == create_lyrics_presentation_GUI_BASED(result.title, sections)
               build == [title |-> result.title, sections |-> sections,
                         output_file |-> output_file]
           IN  Outcome(song_query, result,
                       IF create_lyrics_presentation_raises(save, encodes)
                       THEN "False" ELSE "True",
                       <<build>>, prs_save(output_file, slides, save))

\* process_single_song of GUI_BASED.py; save is what prs.save does, encodes
\* whether standard output encodes the check mark, and the except clause
\* catches what create_lyrics_presentation raises.
process_single_song(song_query, output_folder, env, save, encodes) ==
  LET result == search_genius_lyrics(env)
  IN  IF result.raised THEN Outcome(song_query, result, "False", <<>>, <<>>)
      ELSE IF NoLyrics(result) THEN Outcome(song_query, result, "False", <<>>, <<>>)
      ELSE LET sections == parse_lyrics_sections_GUI_BASED(result.lyrics)
               output_file == os_path_join(output_folder, safe_filename(song_query) \o PptxSuffix)
               slides == create_lyrics_presentation_GUI_BASED(result.title, sections)
               build == [title |-> result.title, sections |-> sections,
                         output_file |-> output_file]
           IN  Outcome(song_query, result,
                       IF create_lyrics_presentation_raises(save, encodes)
                       THEN "False" ELSE "True",
                       <<build>>, prs_save(output_file, slides, save))

\* main(song_query, output_file) of scrappingPpptx.py: nothing is caught.
main(song_query, output_file, env, save, encodes) ==
  LET result == search_genius_lyrics(env)
  IN  IF result.raised THEN Outcome(song_query, result, "raised", <<>>, <<>>)
      ELSE IF NoLyrics(result) THEN Outcome(song_query, result, "None", <<>>, <<>>)
      ELSE LET sections == parse_lyrics_sections_scrappingPpptx(result.lyrics)
               slides == create_lyrics_presentation_scrappingPpptx(result.title, sections)
               build == [title |-> result.title, sections |-> sections,
                         output_file |-> output_file]
           IN  Outcome(song_query, result,
                       IF create_lyrics_presentation_raises(save, encodes)
                       THEN "raised" ELSE "None",
                       <<build>>, prs_save(output_file, slides, save))

\* The files after writing the files of saved over them.
WriteFiles(files, saved) ==
  {f \in files : \A n \in 1..Len(saved) : f.path # saved[n].path}
    \cup {saved[n] : n \in 1..Len(saved)}

\* ------------------------------------------------------------------------
\* Inputs
\* ------------------------------------------------------------------------
\* "[Verse 1]\nHello\nWorld\n\n[Chorus]\nSing out"
Scenario1Text ==
  <<"[", "V", "e", "r", "s", "e", " ", "1", "]", NL, "H", "e", "l", "l", "o", NL,
    "W", "o", "r", "l", "d", NL, NL, "[", "C", "h", "o", "r", "u", "s", "]", NL,
    "S", "i", "n", "g", " ", "o", "u", "t">>

\* "Intro text\n[Verse]\nBody"
Scenario2Text ==
  <<"I", "n", "t", "r", "o", " ", "t", "e", "x", "t", NL, "[", "V", "e", "r", "s",
    "e", "]", NL, "B", "o", "d", "y">>

LyricsTexts == StringsUpTo(MaxLen) \cup {Scenario1Text, Scenario2Text}

TextLens == (0 - NegSpan)..MaxTextLen \cup {FarLen}

\* Song queries, two that are given the same file name, and the lines of the
\* text area: a query or a blank line.
Queries == {<<"a">>, <<"a", "!">>}

Lines == Queries \cup {<<" ">>, <<"\f">>}

TypedTexts == UNION {[1..k -> Lines] : k \in 0..MaxSongs}

\* "a by b", the title of every hit.
HitTitle == <<"a", " ", "b", "y", " ", "b">>

NoPage == [search |-> "hit", page |-> "ok", title |-> HitTitle, containers |-> <<>>]

\* What the network answers to a query.
FetchEnvs ==
  {[NoPage EXCEPT !.search = "request_error"],
   [NoPage EXCEPT !.search = "malformed"],
   [NoPage EXCEPT !.search = "no_song"],
   [NoPage EXCEPT !.page = "request_error"],
   NoPage,
   [NoPage EXCEPT !.containers = << <<" ">> >>],
   [NoPage EXCEPT !.containers = << <<"a">>, <<"[", "a", "]", "a", " ">> >>]}

\* "Way Maker! (Live)"
Scenario5Query ==
  <<"W", "a", "y", " ", "M", "a", "k", "e", "r", "!", " ", "(", "L", "i", "v", "e", ")">>

\* Characters of the generated song queries.
QueryChars == {"a", "é", "U+03A9", "!", " ", "-", "_"}

\* The queries of the batch: non-blank lines, stripped (start_processing).
QueryTexts ==
  {q \in UNION {[1..k -> QueryChars] : k \in 1..MaxQueryLen} : strip(q) = q}
    \cup {Scenario5Query}

\* The arguments of the presentation builder: a title, and Sections with an
\* empty or a non-empty label and a text of 1, 100 or 250 characters.
BuildTitles == {<<>>, HitTitle}

BuildSections ==
  {<<label, [k \in 1..n |-> "a"]>> : label \in {<<>>, <<"a">>}, n \in {1, 100, 250}}

BuildSectionSeqs == UNION {[1..k -> BuildSections] : k \in 0..MaxSections}

\* "lyrics_presentation.pptx", the default output_file of main.
DefaultOutputFile ==
  <<"l", "y", "r", "i", "c", "s", "_", "p", "r", "e", "s", "e", "n", "t",
    "a", "t", "i", "o", "n", ".", "p", "p", "t", "x">>

\* The call of main the script makes when it is run:
\* main("king of my heart bethel", "king_of_my_heart_lyrics.pptx").
ScriptQuery ==
  <<"k", "i", "n", "g", " ", "o", "f", " ", "m", "y", " ", "h", "e", "a",
    "r", "t", " ", "b", "e", "t", "h", "e", "l">>

ScriptOutputFile ==
  <<"k", "i", "n", "g", "_", "o", "f", "_", "m", "y", "_", "h", "e", "a",
    "r", "t", "_", "l", "y", "r", "i", "c", "s", ".", "p", "p", "t", "x">>

\* The output_file argument of create_lyrics_presentation: its default, or
\* the one the script passes.
BuildOutputFiles == {DefaultOutputFile, ScriptOutputFile}

\* The arguments of main: a query with the default output file, or the
\* script's own call.
MainArgs == (Queries \X {DefaultOutputFile}) \cup {<<ScriptQuery, ScriptOutputFile>>}

\* "lyrics_presentations", the output folder when the folder entry is blank.
DefaultFolder ==
  <<"l", "y", "r", "i", "c", "s", "_", "p", "r", "e", "s", "e", "n", "t",
    "a", "t", "i", "o", "n", "s">>

\* What the folder entry reads at a click: what __init__ put in it, a blank,
\* or " out ".
FolderEntries == {DefaultFolder, <<" ">>, <<" ", "o", "u", "t", " ">>}

\* self.folder_entry.get().strip(), or the default.
OutputFolderOf(entry) == IF strip(entry) = <<>> THEN DefaultFolder ELSE strip(entry)

\* The output folders start_processing can read from the folder entry.
Folders == {OutputFolderOf(entry) : entry \in FolderEntries}

\* ------------------------------------------------------------------------
\* State
\* ------------------------------------------------------------------------
VARIABLES
  \* the sizers: which module's calculate_font_size is called, its last
  \* argument and result, and whether it has been called at all
  sizer, content_length, font_size, sized,
  \* the parsers: the text, the position of the run, the two parsers'
  \* results on the text and on the document rebuilt from their results
  lyrics_text, parse_pc, strict_sections, lenient_sections,
  strict_again, lenient_again,
  \* the pipelines: which program runs ("gui" is GUI_BASED.py, "cli" is
  \* scrappingPpptx.py); the state of the generate button; the worker
  \* thread's position ("none" when there is no worker); its songs, loop
  \* position and counters; the last message box; the position of main
  program, button, worker_pc, songs, song_idx, success_count, fail_count,
  dialog, batches, main_pc,
  \* the worker threads started and not yet ended, and those of them that
  \* have run their last statement (worker_pc, songs, song_idx, output_folder
  \* and the counters are the locals of the one that has not)
  worker_threads, ending_threads,
  \* the output folder of the last batch; the file system: the folders that
  \* exist, the files written
  output_folder, existing_folders, files,
  \* the calls of process_single_song or main since the log was cleared,
  \* and the calls of create_lyrics_presentation they made
  calls, builds,
  \* the naming of the output file: the query, the stem made of it, and
  \* whether it has been made
  query_text, filename_stem, stem_made,
  \* the presentation builder: the module whose builder is called, its
  \* arguments, the slides it hands to prs.save, and whether it has run
  \* the output file it is given and whether prs.save raised
  builder, build_title, build_sections, slides, slides_made,
  build_output_file, build_raised,
  \* whether standard output can encode U+2713, the check mark that
  \* create_lyrics_presentation prints once prs.save has returned (UTF-8
  \* can, ASCII and cp1252 cannot)
  stdout_encodes

sizeVars == <<sizer, content_length, font_size, sized>>

parseVars == <<lyrics_text, parse_pc, strict_sections, lenient_sections,
               strict_again, lenient_again>>

\* The variables of the pipelines but the files written.
pipeVarsButFiles ==
  <<program, button, worker_pc, songs, song_idx, success_count, fail_count, dialog,
    batches, main_pc, worker_threads, ending_threads, output_folder, existing_folders,
    calls, builds>>

pipeVars == <<pipeVarsButFiles, files>>

nameVars == <<query_text, filename_stem, stem_made>>

buildVars == <<builder, build_title, build_sections, slides, slides_made,
               build_output_file, build_raised>>

\* Where the programs run.
envVars == <<stdout_encodes>>

vars == <<sizeVars, parseVars, pipeVars, nameVars, buildVars, envVars>>

\* A standard output that encodes every character printed.
StdoutIdle == stdout_encodes = TRUE

SizeIdle ==
  /\ sizer = "none"
  /\ content_length = 0
  /\ font_size = 0
  /\ sized = FALSE

ParseIdle ==
  /\ lyrics_text = <<>>
  /\ parse_pc = "idle"
  /\ strict_sections = <<>>
  /\ lenient_sections = <<>>
  /\ strict_again = <<>>
  /\ lenient_again = <<>>

PipeIdle ==
  /\ program = "none"
  /\ button = "normal"
  /\ worker_pc = "none"
  /\ songs = <<>>
  /\ song_idx = 0
  /\ success_count = 0
  /\ fail_count = 0
  /\ dialog = "none"
  /\ batches = 0
  /\ main_pc = "ready"
  /\ worker_threads = 0
  /\ ending_threads = 0
  /\ output_folder = <<>>
  /\ existing_folders = {}
  /\ files = {}
  /\ calls = <<>>
  /\ builds = <<>>

NameIdle ==
  /\ query_text = <<>>
  /\ filename_stem = <<>>
  /\ stem_made = FALSE

BuildIdle ==
  /\ builder = "none"
  /\ build_title = <<>>
  /\ build_sections = <<>>
  /\ slides = <<>>
  /\ slides_made = FALSE
  /\ build_output_file = <<>>
  /\ build_raised = FALSE

\* ------------------------------------------------------------------------
\* The sizers: one call of calculate_font_size per slide
\* ------------------------------------------------------------------------
SizeInit ==
  /\ sizer \in {"GUI_BASED", "scrappingPpptx"}
  /\ content_length = 0
  /\ font_size = 0
  /\ sized = FALSE
  /\ ParseIdle
  /\ PipeIdle
  /\ NameIdle
  /\ BuildIdle
  /\ StdoutIdle

SizeGui ==
  /\ sizer = "GUI_BASED"
  /\ \E n \in TextLens :
       /\ content_length' = n
       /\ font_size' = calculate_font_size_GUI_BASED(n)
  /\ sized' = TRUE
  /\ UNCHANGED <<sizer, parseVars, pipeVars, nameVars, buildVars, envVars>>

SizeCli ==
  /\ sizer = "scrappingPpptx"
  /\ \E n \in TextLens :
       /\ content_length' = n
       /\ font_size' = calculate_font_size_scrappingPpptx(n)
  /\ sized' = TRUE
  /\ UNCHANGED <<sizer, parseVars, pipeVars, nameVars, buildVars, envVars>>

SizeNext == SizeGui \/ SizeCli

SpecSize == SizeInit /\ [][SizeNext]_vars

\* ------------------------------------------------------------------------
\* The parsers: each applied to the text, then to the document rebuilt
\* from its own result
\* ------------------------------------------------------------------------
ParseInit ==
  /\ lyrics_text \in LyricsTexts
  /\ parse_pc = "strict"
  /\ strict_sections = <<>>
  /\ lenient_sections = <<>>
  /\ strict_again = <<>>
  /\ lenient_again = <<>>
  /\ SizeIdle
  /\ PipeIdle
  /\ NameIdle
  /\ BuildIdle
  /\ StdoutIdle

ParseStrict ==
  /\ parse_pc = "strict"
  /\ strict_sections' = parse_lyrics_sections_GUI_BASED(lyrics_text)
  /\ parse_pc' = "lenient"
  /\ UNCHANGED <<lyrics_text, lenient_sections, strict_again, lenient_again,
                 sizeVars, pipeVars, nameVars, buildVars, envVars>>

ParseLenient ==
  /\ parse_pc = "lenient"
  /\ lenient_sections' = parse_lyrics_sections_scrappingPpptx(lyrics_text)
  /\ parse_pc' = "strict_again"
  /\ UNCHANGED <<lyrics_text, strict_sections, strict_again, lenient_again,
                 sizeVars, pipeVars, nameVars, buildVars, envVars>>

ReparseStrict ==
  /\ parse_pc = "strict_again"
  /\ strict_again' = parse_lyrics_sections_GUI_BASED(Rebuild(strict_sections))
  /\ parse_pc' = "lenient_again"
  /\ UNCHANGED <<lyrics_text, strict_sections, lenient_sections, lenient_again,
                 sizeVars, pipeVars, nameVars, buildVars, envVars>>

ReparseLenient ==
  /\ parse_pc = "lenient_again"
  /\ lenient_again' = parse_lyrics_sections_scrappingPpptx(Rebuild(lenient_sections))
  /\ parse_pc' = "done"
  /\ UNCHANGED <<lyrics_text, strict_sections, lenient_sections, strict_again,
                 sizeVars, pipeVars, nameVars, buildVars, envVars>>

ParseNext == ParseStrict \/ ParseLenient \/ ReparseStrict \/ ReparseLenient

SpecParse == ParseInit /\ [][ParseNext]_vars

\* Which results of the run are in.
StrictParsed == parse_pc \in {"lenient", "strict_again", "lenient_again", "done"}

LenientParsed == parse_pc \in {"strict_again", "lenient_again", "done"}

StrictReparsed == parse_pc \in {"lenient_again", "done"}

LenientReparsed == parse_pc = "done"

\* ------------------------------------------------------------------------
\* The pipelines: the batch GUI (LyricsGUI) and main of scrappingPpptx.py
\* ------------------------------------------------------------------------
PipeInit ==
  /\ program \in {"gui", "cli"}
  /\ button = "normal"
  /\ worker_pc = "none"
  /\ songs = <<>>
  /\ song_idx = 0
  /\ success_count = 0
  /\ fail_count = 0
  /\ dialog = "none"
  /\ batches = 0
  /\ main_pc = "ready"
  /\ worker_threads = 0
  /\ ending_threads = 0
  /\ output_folder = <<>>
  /\ existing_folders \in SUBSET Folders
  /\ files = {}
  /\ calls = <<>>
  /\ builds = <<>>
  /\ SizeIdle
  /\ ParseIdle
  /\ NameIdle
  /\ BuildIdle
  /\ stdout_encodes \in BOOLEAN

\* os.path.exists(output_folder)
folder_exists == output_folder \in existing_folders

\* [line.strip() for line in text.split('\n') if line.strip()]
SongsOf(typed) ==
  LET kept == SelectSeq(typed, LAMBDA line : strip(line) # <<>>)
  IN  [k \in 1..Len(kept) |-> strip(kept[k])]

\* The song lists start_processing can read from the text area.
SongLists == {SongsOf(typed) : typed \in TypedTexts}

\* start_processing leaving the generate button enabled.
StartProcessing_enabled ==
  /\ program = "gui"
  /\ button = "normal"
  /\ batches < MaxBatches
  /\ \E typed_songs \in SongLists, folder \in Folders :
       IF typed_songs = <<>>
       THEN /\ dialog' = "warning"
            /\ UNCHANGED <<button, worker_pc, songs, song_idx, calls, builds, batches,
                           worker_threads, output_folder>>
       ELSE /\ songs' = typed_songs
            /\ output_folder' = folder
            /\ button' = button
            /\ calls' = <<>>
            /\ builds' = <<>>
            /\ worker_pc' = "makedirs"
            /\ worker_threads' = worker_threads + 1
            /\ song_idx' = 0
            /\ batches' = batches + 1
            /\ UNCHANGED dialog
  /\ UNCHANGED <<program, success_count, fail_count, main_pc, ending_threads,
                 existing_folders, files, sizeVars, parseVars, nameVars, buildVars,
                 envVars>>

\* LyricsGUI.start_processing, the command of the generate button: Tk runs
\* it only while the button is not disabled. typed_songs is read from the
\* text area and folder from the folder entry, both at the click.
StartProcessing ==
  /\ program = "gui"
  /\ button = "normal"
  /\ batches < MaxBatches
  /\ \E typed_songs \in SongLists, folder \in Folders :
       IF typed_songs = <<>>
       THEN /\ dialog' = "warning"
            /\ UNCHANGED <<button, worker_pc, songs, song_idx, calls, builds, batches,
                           worker_threads, output_folder>>
       ELSE /\ songs' = typed_songs
            /\ output_folder' = folder
            /\ button' = "disabled"
            /\ calls' = <<>>
            /\ builds' = <<>>
            /\ worker_pc' = "makedirs"
            /\ worker_threads' = worker_threads + 1
            /\ song_idx' = 0
            /\ batches' = batches + 1
            /\ UNCHANGED dialog
  /\ UNCHANGED <<program, success_count, fail_count, main_pc, ending_threads,
                 existing_folders, files, sizeVars, parseVars, nameVars, buildVars,
                 envVars>>

\* LyricsGUI.process_songs up to the loop: os.makedirs creates the folder or
\* raises an OSError, which the outer except clause reports.
WorkerMakeDirs ==
  /\ worker_pc = "makedirs"
  /\ \/ /\ folder_exists
        /\ worker_pc' = "loop"
        /\ UNCHANGED <<existing_folders, dialog>>
     \/ /\ ~folder_exists
        /\ existing_folders' = existing_folders \cup {output_folder}
        /\ worker_pc' = "loop"
        /\ UNCHANGED dialog
     \/ /\ ~folder_exists
        /\ dialog' = "error"
        /\ worker_pc' = "finally"
        /\ UNCHANGED existing_folders
  /\ success_count' = 0
  /\ fail_count' = 0
  /\ UNCHANGED <<program, worker_threads, ending_threads, button, songs, song_idx,
                 batches, main_pc, output_folder, files, calls, builds, sizeVars,
                 parseVars, nameVars, buildVars, envVars>>

\* What a call of process_single_song can do, for every query, folder and
\* standard output: its outcomes over what the network answers and what
\* prs.save does.
SongOutcomes ==
  [a \in Queries \X Folders \X BOOLEAN |->
     {process_single_song(a[1], a[2], env, save, a[3]) :
        env \in FetchEnvs, save \in SaveOutcomes}]

\* One iteration of "for song in songs": the call of process_single_song and
\* the counting; an exception leaving the call goes to the outer except.
WorkerSong ==
  /\ worker_pc = "loop"
  /\ song_idx < Len(songs)
  /\ \E out \in SongOutcomes[<<songs[song_idx + 1], output_folder, stdout_encodes>>] :
       /\ calls' = Append(calls, out)
       /\ builds' = builds \o out.builds
       /\ files' = WriteFiles(files, out.saved)
       /\ IF out.ret = "raised"
          THEN /\ dialog' = "error"
               /\ worker_pc' = "finally"
               /\ UNCHANGED <<song_idx, success_count, fail_count>>
          ELSE /\ song_idx' = song_idx + 1
               /\ success_count' = IF out.ret = "True" THEN success_count + 1
                                   ELSE success_count
               /\ fail_count' = IF out.ret = "True" THEN fail_count
                                ELSE fail_count + 1
               /\ UNCHANGED <<dialog, worker_pc>>
  /\ UNCHANGED <<program, worker_threads, ending_threads, button, songs, batches,
                 main_pc, output_folder, existing_folders, sizeVars, parseVars,
                 nameVars, buildVars, envVars>>

\* After the loop: the summary and messagebox.showinfo.
WorkerReport ==
  /\ worker_pc = "loop"
  /\ song_idx = Len(songs)
  /\ dialog' = "complete"
  /\ worker_pc' = "finally"
  /\ UNCHANGED <<program, worker_threads, ending_threads, button, songs, song_idx,
                 success_count, fail_count, batches, main_pc, output_folder,
                 existing_folders, files, calls, builds, sizeVars, parseVars,
                 nameVars, buildVars, envVars>>

\* The finally clause, the last statement of process_songs: the button is
\* enabled again. The thread has still to return.
WorkerFinally ==
  /\ worker_pc = "finally"
  /\ button' = "normal"
  /\ worker_pc' = "none"
  /\ ending_threads' = ending_threads + 1
  /\ UNCHANGED <<program, worker_threads, songs, song_idx, success_count, fail_count,
                 dialog, batches, main_pc, output_folder, existing_folders, files,
                 calls, builds, sizeVars, parseVars, nameVars, buildVars, envVars>>

\* process_songs returns and its thread ends.
WorkerExit ==
  /\ ending_threads > 0
  /\ ending_threads' = ending_threads - 1
  /\ worker_threads' = worker_threads - 1
  /\ UNCHANGED <<program, button, worker_pc, songs, song_idx, success_count,
                 fail_count, dialog, batches, main_pc, output_folder, existing_folders,
                 files, calls, builds, sizeVars, parseVars, nameVars, buildVars,
                 envVars>>

\* main(song_query, output_file) of scrappingPpptx.py.
MainCli ==
  /\ program = "cli"
  /\ main_pc = "ready"
  /\ \E args \in MainArgs, env \in FetchEnvs, save \in SaveOutcomes :
       LET out == main(args[1], args[2], env, save, stdout_encodes)
       IN  /\ calls' = Append(calls, out)
           /\ builds' = builds \o out.builds
           /\ files' = WriteFiles(files, out.saved)
           /\ main_pc' = IF out.ret = "raised" THEN "raised" ELSE "returned"
  /\ UNCHANGED <<program, worker_threads, ending_threads, button, worker_pc, songs,
                 song_idx, success_count, fail_count, dialog, batches, output_folder,
                 existing_folders, sizeVars, parseVars, nameVars, buildVars, envVars>>

PipeNext ==
  \/ StartProcessing
  \/ WorkerMakeDirs
  \/ WorkerSong
  \/ WorkerReport
  \/ WorkerFinally
  \/ WorkerExit
  \/ MainCli

SpecPipeline == PipeInit /\ [][PipeNext]_vars

\* ------------------------------------------------------------------------
\* The naming of the output file in process_single_song
\* ------------------------------------------------------------------------
NameInit ==
  /\ query_text \in QueryTexts
  /\ filename_stem = <<>>
  /\ stem_made = FALSE
  /\ SizeIdle
  /\ ParseIdle
  /\ PipeIdle
  /\ BuildIdle
  /\ StdoutIdle

\* "Create safe filename": the two assignments of safe_filename.
MakeFilename ==
  /\ ~stem_made
  /\ filename_stem' = safe_filename(query_text)
  /\ stem_made' = TRUE
  /\ UNCHANGED <<query_text, sizeVars, parseVars, pipeVars, buildVars, envVars>>

NameNext == MakeFilename

SpecName == NameInit /\ [][NameNext]_vars

\* ------------------------------------------------------------------------
\* The presentation builders
\* ------------------------------------------------------------------------
BuildInit ==
  /\ builder \in {"GUI_BASED", "scrappingPpptx"}
  /\ build_title \in BuildTitles
  /\ build_sections \in BuildSectionSeqs
  /\ build_output_file \in BuildOutputFiles
  /\ slides = <<>>
  /\ slides_made = FALSE
  /\ build_raised = FALSE
  /\ SizeIdle
  /\ ParseIdle
  /\ PipeIdle
  /\ NameIdle
  /\ stdout_encodes \in BOOLEAN

\* create_lyrics_presentation of GUI_BASED.py: the slides are made, then
\* prs.save writes them to the output file or raises, then the check mark is
\* printed.
BuildGui ==
  /\ builder = "GUI_BASED"
  /\ ~slides_made
  /\ slides' = create_lyrics_presentation_GUI_BASED(build_title, build_sections)
  /\ slides_made' = TRUE
  /\ \E save \in SaveOutcomes :
       /\ build_raised' = create_lyrics_presentation_raises(save, stdout_encodes)
       /\ files' = WriteFiles(files, prs_save(build_output_file, slides', save))
  /\ UNCHANGED <<builder, build_title, build_sections, build_output_file, sizeVars,
                 parseVars, pipeVarsButFiles, nameVars, envVars>>

\* create_lyrics_presentation of scrappingPpptx.py: the slides are made, then
\* prs.save writes them to the output file or raises, then the check mark is
\* printed.
BuildCli ==
  /\ builder = "scrappingPpptx"
  /\ ~slides_made
  /\ slides' = create_lyrics_presentation_scrappingPpptx(build_title, build_sections)
  /\ slides_made' = TRUE
  /\ \E save \in SaveOutcomes :
       /\ build_raised' = create_lyrics_presentation_raises(save, stdout_encodes)
       /\ files' = WriteFiles(files, prs_save(build_output_file, slides', save))
  /\ UNCHANGED <<builder, build_title, build_sections, build_output_file, sizeVars,
                 parseVars, pipeVarsButFiles, nameVars, envVars>>

BuildNext == BuildGui \/ BuildCli

SpecBuild == BuildInit /\ [][BuildNext]_vars

\* The worker of the last batch has run its last statement and every worker
\* thread has ended.
WorkerFinished == batches > 0 /\ worker_pc = "none" /\ worker_threads = 0

\* The queries handed to process_single_song, in the order of the calls.
Handled == [n \in 1..Len(calls) |-> calls[n].query]

\* ------------------------------------------------------------------------
\* Properties of the sizers (SpecSize)
\* ------------------------------------------------------------------------
\* C1: for every integer text length, zero and negative included, the GUI
\* pipeline's calculate_font_size returns the tier of the canonical table
\* (<80 48, <120 44, <180 40, <250 36, <350 32, <450 28, <600 26, <800 24,
\* <1000 22, else 20); sizeFor(50) = 48, sizeFor(79) = 48, sizeFor(80) = 44,
\* sizeFor(10000) = 20.
C1_CanonicalTable ==
  (sized /\ sizer = "GUI_BASED") =>
    /\ content_length < 80 => font_size = 48
    /\ (content_length >= 80 /\ content_length < 120) => font_size = 44
    /\ (content_length >= 120 /\ content_length < 180) => font_size = 40
    /\ (content_length >= 180 /\ content_length < 250) => font_size = 36
    /\ (content_length >= 250 /\ content_length < 350) => font_size = 32
    /\ (content_length >= 350 /\ content_length < 450) => font_size = 28
    /\ (content_length >= 450 /\ content_length < 600) => font_size = 26
    /\ (content_length >= 600 /\ content_length < 800) => font_size = 24
    /\ (content_length >= 800 /\ content_length < 1000) => font_size = 22
    /\ content_length >= 1000 => font_size = 20
    /\ content_length = 50 => font_size = 48
    /\ content_length = 79 => font_size = 48
    /\ content_length = 80 => font_size = 44
    /\ content_length = 10000 => font_size = 20

\* The GUI sizer has been called with a negative length and chose the
\* largest tier.
C1_Witness ==
  /\ sized
  /\ sizer = "GUI_BASED"
  /\ content_length < 0
  /\ font_size = 48

\* C2: calculate_font_size is total and monotonically non-increasing in both
\* pipelines: of any two calls, the one with the longer text never gets the
\* larger font, and every call returns a positive size.
C2_Monotone ==
  [][(sized /\ sized') =>
       /\ font_size' \in Nat \ {0}
       /\ (content_length <= content_length') => (font_size >= font_size')
       /\ (content_length >= content_length') => (font_size <= font_size')]_vars

\* The single-song sizer has been called with a text of the last tier.
C2_Witness ==
  /\ sized
  /\ sizer = "scrappingPpptx"
  /\ content_length >= 700
  /\ font_size = 20

\* ------------------------------------------------------------------------
\* Properties of the parsers (SpecParse)
\* ------------------------------------------------------------------------
\* Every text of the sequence is non-empty and starts and ends with a
\* character that is not whitespace.
TrimmedNonEmpty(sections) ==
  \A n \in 1..Len(sections) :
    LET text == sections[n][2]
    IN  /\ text # <<>>
        /\ text[1] \notin Whitespace
        /\ text[Len(text)] \notin Whitespace

\* The positions (1-based, odd) of the non-blank body spans of parts, from
\* position first on.
NonBlankBodies(parts, first) ==
  {k \in first..Len(parts) : k % 2 = 1 /\ strip(parts[k]) # <<>>}

\* The n-th smallest element of a set of integers.
NthOf(S, n) == CHOOSE x \in S : Cardinality({y \in S : y < x}) = n - 1

\* The text has a marker: a "[", a non-empty run without "]", a "]".
HasMarker(s) ==
  \E k, j \in 1..Len(s) :
    /\ k + 1 < j
    /\ s[k] = "["
    /\ s[j] = "]"
    /\ \A m \in (k + 1)..(j - 1) : s[m] # "]"

\* C3: every (label, text) pair either parser returns has a text that is
\* non-empty and has no leading or trailing whitespace, and no Section comes
\* from a span whose trimmed body is empty.
C3_TextTrimmedNonEmpty ==
  /\ StrictParsed =>
       /\ TrimmedNonEmpty(strict_sections)
       /\ Len(strict_sections) <= Cardinality(NonBlankBodies(re_split(lyrics_text), 1))
  /\ LenientParsed =>
       /\ TrimmedNonEmpty(lenient_sections)
       /\ Len(lenient_sections) <= Cardinality(NonBlankBodies(re_split(lyrics_text), 1))

\* Both parsers have run on a text whose marker is followed by a blank,
\* non-empty body, and the lenient parser still returned a Section.
C3_Witness ==
  /\ LenientParsed
  /\ Len(re_split(lyrics_text)) >= 3
  /\ re_split(lyrics_text)[3] # <<>>
  /\ strip(re_split(lyrics_text)[3]) = <<>>
  /\ lenient_sections # <<>>
  /\ strict_sections = <<>>

\* The Sections the strict mode is to return: one per marker whose body is
\* non-blank, in order, as (trimmed label, trimmed body).
StrictExpected(s) ==
  LET parts == re_split(s)
      idx == NonBlankBodies(parts, 3)
  IN  [n \in 1..Cardinality(idx) |->
         <<strip(parts[NthOf(idx, n) - 1]), strip(parts[NthOf(idx, n)])>>]

\* C4: the strict parser returns exactly the ordered list of (trimmed label,
\* trimmed body) of the markers whose immediately following body is
\* non-blank; text before the first marker is in no Section; scenarios 1
\* and 2 give the documented lists.
C4_StrictExact ==
  StrictParsed =>
    /\ strict_sections = StrictExpected(lyrics_text)
    /\ lyrics_text = Scenario1Text =>
         strict_sections =
           << <<<<"V", "e", "r", "s", "e", " ", "1">>,
                <<"H", "e", "l", "l", "o", NL, "W", "o", "r", "l", "d">>>>,
              <<<<"C", "h", "o", "r", "u", "s">>,
                <<"S", "i", "n", "g", " ", "o", "u", "t">>>> >>
    /\ lyrics_text = Scenario2Text =>
         strict_sections = << <<<<"V", "e", "r", "s", "e">>, <<"B", "o", "d", "y">>>> >>

\* The strict parser has run on scenario 2 and dropped the intro text.
C4_Witness ==
  /\ StrictParsed
  /\ lyrics_text = Scenario2Text
  /\ Len(strict_sections) = 1
  /\ strict_sections[1][1] = <<"V", "e", "r", "s", "e">>

\* The Sections the lenient mode is to return: one per non-blank body, in
\* order; the text before the first marker with the empty label, every other
\* body with the trimmed label of the marker right before it.
LenientExpected(s) ==
  LET parts == re_split(s)
      idx == NonBlankBodies(parts, 1)
  IN  [n \in 1..Cardinality(idx) |->
         <<IF NthOf(idx, n) = 1 THEN <<>> ELSE strip(parts[NthOf(idx, n) - 1]),
           strip(parts[NthOf(idx, n)])>>]

\* C5: the lenient parser keeps non-blank text before the first marker as a
\* Section with the empty label, and emits every other non-blank body with
\* the trimmed label of the marker immediately before it; scenario 2 gives
\* [("", "Intro text"), ("Verse", "Body")].
C5_LenientLabels ==
  LenientParsed =>
    /\ lenient_sections = LenientExpected(lyrics_text)
    /\ lyrics_text = Scenario2Text =>
         lenient_sections =
           << <<<<>>, <<"I", "n", "t", "r", "o", " ", "t", "e", "x", "t">>>>,
              <<<<"V", "e", "r", "s", "e">>, <<"B", "o", "d", "y">>>> >>

\* C6 as stated: on an empty or markerless input the strict parser returns
\* the empty sequence and the lenient parser a single empty-label Section
\* holding the entire trimmed input.
C6_Original ==
  ~HasMarker(lyrics_text) =>
    /\ StrictParsed => strict_sections = <<>>
    /\ LenientParsed => lenient_sections = << <<<<>>, strip(lyrics_text)>> >>

\* C6, amended: on an empty or markerless input the strict parser returns
\* the empty sequence; the lenient parser returns a single empty-label
\* Section holding the entire trimmed input when that is non-empty, and the
\* empty sequence when the input is empty or blank.
C6_Markerless ==
  ~HasMarker(lyrics_text) =>
    /\ StrictParsed => strict_sections = <<>>
    /\ LenientParsed =>
         /\ strip(lyrics_text) # <<>> =>
              lenient_sections = << <<<<>>, strip(lyrics_text)>> >>
         /\ strip(lyrics_text) = <<>> => lenient_sections = <<>>

\* The lenient parser has run on a blank, non-empty text without a marker
\* and returned no Section.
C6_Witness ==
  /\ LenientParsed
  /\ lyrics_text # <<>>
  /\ strip(lyrics_text) = <<>>
  /\ lenient_sections = <<>>

\* The text without its whitespace.
Squash(s) == SelectSeq(s, LAMBDA c : c \notin Whitespace)

\* The bodies of a Section sequence, concatenated.
RECURSIVE Bodies(_)
Bodies(sections) ==
  IF sections = <<>> THEN <<>> ELSE sections[1][2] \o Bodies(Tail(sections))

\* The body spans of parts from position first on, concatenated.
RECURSIVE NonLabelText(_, _)
NonLabelText(parts, first) ==
  IF first > Len(parts) THEN <<>>
  ELSE parts[first] \o NonLabelText(parts, first + 2)

\* Every bracket of the text belongs to a marker.
WellFormed(s) ==
  LET parts == re_split(s)
  IN  \A k \in 1..Len(parts) : \A m \in 1..Len(parts[k]) :
        /\ parts[k][m] # "["
        /\ k % 2 = 1 => parts[k][m] # "]"

\* C7 as stated: for a text with well-formed markers and for each parser,
\* the bodies concatenated in output order equal, whitespace aside, the text
\* with its markers removed.
C7_Original ==
  WellFormed(lyrics_text) =>
    /\ StrictParsed =>
         Squash(Bodies(strict_sections)) = Squash(NonLabelText(re_split(lyrics_text), 1))
    /\ LenientParsed =>
         Squash(Bodies(lenient_sections)) = Squash(NonLabelText(re_split(lyrics_text), 1))

\* C7, amended: for a text with well-formed markers, the lenient parser's
\* bodies concatenated in output order equal, whitespace aside, the text
\* with its markers removed; the strict parser's bodies equal the text that
\* follows the first marker with the markers removed (the text before the
\* first marker is dropped).
C7_Reconstruct ==
  WellFormed(lyrics_text) =>
    /\ StrictParsed =>
         Squash(Bodies(strict_sections)) = Squash(NonLabelText(re_split(lyrics_text), 3))
    /\ LenientParsed =>
         Squash(Bodies(lenient_sections)) = Squash(NonLabelText(re_split(lyrics_text), 1))

\* Both parsers have run on a well-formed text with text before its first
\* marker and a body after it: the lenient result has both, the strict one
\* only the body.
C7_Witness ==
  /\ LenientParsed
  /\ WellFormed(lyrics_text)
  /\ Len(re_split(lyrics_text)) >= 3
  /\ Len(lenient_sections) = 2
  /\ Len(strict_sections) = 1
  /\ lenient_sections[1][1] = <<>>

\* Every Section of the sequence has a non-empty label.
Labelled(sections) == \A n \in 1..Len(sections) : sections[n][1] # <<>>

\* C8 as stated: for every text and each parser, parsing the document
\* rebuilt from the parser's output yields the same Section sequence, also
\* when a Section's label is empty.
C8_Original ==
  /\ StrictReparsed => strict_again = strict_sections
  /\ LenientReparsed => lenient_again = lenient_sections

\* C8, amended: for every text and each parser whose output has only
\* non-empty labels, parsing the document rebuilt from that output yields
\* the same Section sequence.
C8_Idempotent ==
  /\ (StrictReparsed /\ Labelled(strict_sections)) => strict_again = strict_sections
  /\ (LenientReparsed /\ Labelled(lenient_sections)) => lenient_again = lenient_sections

\* Both parsers have parsed a text into two labelled Sections and parsed the
\* rebuilt document again.
C8_Witness ==
  /\ LenientReparsed
  /\ Len(lenient_sections) = 2
  /\ Len(strict_sections) = 2
  /\ Labelled(lenient_sections)
  /\ Labelled(strict_sections)

\* ------------------------------------------------------------------------
\* Properties of the pipelines (SpecPipeline)
\* ------------------------------------------------------------------------
\* C9: no error is fatal to the batch; when the worker finishes, every
\* query of the input list has been handed to process_single_song exactly
\* once, in input order, and success_count + fail_count is the number of
\* queries.
C9_BatchCompletes ==
  (program = "gui" /\ WorkerFinished) =>
    /\ Handled = songs
    /\ success_count + fail_count = Len(songs)

\* C10: a call whose fetch returns absent, or a document whose lyrics are
\* absent or empty, does not invoke the presentation builder and writes no
\* file; process_single_song returns False and the batch goes on, main
\* returns, and no exception escapes.
C10_NoLyricsNoBuild ==
  [][(/\ Len(calls') = Len(calls) + 1
      /\ ~calls'[Len(calls')].result.raised
      /\ NoLyrics(calls'[Len(calls')].result))
     =>
     /\ builds' = builds
     /\ files' = files
     /\ calls'[Len(calls')].builds = <<>>
     /\ program = "gui" =>
          /\ calls'[Len(calls')].ret = "False"
          /\ fail_count' = fail_count + 1
          /\ success_count' = success_count
          /\ worker_pc' = "loop"
     /\ program = "cli" =>
          /\ calls'[Len(calls')].ret = "None"
          /\ main_pc' = "returned"]_vars

\* process_single_song has been called for a query whose document came
\* without lyrics, after a query that was built and saved.
C10_Witness ==
  /\ program = "gui"
  /\ Len(calls) = 2
  /\ calls[1].ret = "True"
  /\ calls[2].result.found
  /\ ~calls[2].result.has_lyrics
  /\ calls[2].ret = "False"
  /\ Len(builds) = 1
  /\ fail_count = 1

\* ------------------------------------------------------------------------
\* Properties of the naming of the output file (SpecName)
\* ------------------------------------------------------------------------
\* The characters of a query that a stem may keep.
Kept(q) == SelectSeq(q, LAMBDA c : c \in Alnum \cup {" ", "-", "_"})

\* The text with every space turned into an underscore.
Underscored(s) == [k \in 1..Len(s) |-> IF s[k] = " " THEN "_" ELSE s[k]]

\* The text without its leading and trailing spaces.
RECURSIVE TrimSpaces(_)
TrimSpaces(s) ==
  IF s = <<>> THEN s
  ELSE IF s[1] = " " THEN TrimSpaces(Tail(s))
  ELSE IF s[Len(s)] = " " THEN TrimSpaces(SubSeq(s, 1, Len(s) - 1))
  ELSE s

\* "Way_Maker_Live"
Scenario5Stem ==
  <<"W", "a", "y", "_", "M", "a", "k", "e", "r", "_", "L", "i", "v", "e">>

\* C11 as stated: the stem is the query with every character other than
\* alphanumerics, spaces, hyphens and underscores removed and with spaces
\* converted to underscores; it holds only alphanumerics, hyphens and
\* underscores; "Way Maker! (Live)" becomes "Way_Maker_Live".
C11_Original ==
  stem_made =>
    /\ filename_stem = Underscored(Kept(query_text))
    /\ \A k \in 1..Len(filename_stem) : filename_stem[k] \in Alnum \cup {"-", "_"}
    /\ query_text = Scenario5Query => filename_stem = Scenario5Stem

\* C11, amended: the stem is the query with every character other than
\* alphanumerics, spaces, hyphens and underscores removed, then with the
\* leading and trailing spaces that are left removed, then with the
\* remaining spaces converted to underscores; it holds only alphanumerics,
\* hyphens and underscores, never a space; "Way Maker! (Live)" becomes
\* "Way_Maker_Live".
C11_Stem ==
  stem_made =>
    /\ filename_stem = Underscored(TrimSpaces(Kept(query_text)))
    /\ \A k \in 1..Len(filename_stem) : filename_stem[k] \in Alnum \cup {"-", "_"}
    /\ query_text = Scenario5Query => filename_stem = Scenario5Stem

\* The stem has been made of a query that ends, once the other characters
\* are removed, with a space: the stem does not end with an underscore.
C11_Witness ==
  /\ stem_made
  /\ Kept(query_text) # <<>>
  /\ Kept(query_text)[Len(Kept(query_text))] = " "
  /\ filename_stem # <<>>
  /\ filename_stem[Len(filename_stem)] = "a"

\* ------------------------------------------------------------------------
\* Properties of the batch GUI's worker (SpecPipeline)
\* ------------------------------------------------------------------------
\* The worker threads that have not run their last statement.
WorkersAtWork == worker_threads - ending_threads

\* C12 as stated: at most one background worker exists at any time; the
\* generate button is disabled from the spawn of a worker until the worker's
\* final step, on every path, and the worker handles the queries one at a
\* time.
C12_Original ==
  program = "gui" =>
    /\ worker_threads \in {0, 1}
    /\ worker_pc # "none" => button = "disabled"
    /\ worker_pc # "none" =>
         /\ Len(calls) = song_idx
         /\ song_idx <= Len(songs)

\* C12, amended: at most one background worker is at work at any time.
\* From the spawn of a worker until the worker's final step, the re-enabling
\* of the button in the finally clause, the generate button is disabled, on
\* every path of the worker, the error paths included, so no second worker
\* can be started before that step; the worker at work hands the queries
\* over one at a time, in one loop. The threads of workers that have run
\* their final step may still exist beside it.
C12_SingleWorker ==
  program = "gui" =>
    /\ WorkersAtWork \in {0, 1}
    /\ ending_threads >= 0
    /\ worker_threads <= batches
    /\ WorkersAtWork = 1 <=> worker_pc # "none"
    /\ WorkersAtWork = 1 => button = "disabled"
    /\ button = "normal" => WorkersAtWork = 0
    /\ WorkersAtWork = 1 =>
         /\ Len(calls) = song_idx
         /\ song_idx <= Len(songs)

\* A second worker runs its loop with the button disabled while the thread
\* of the first worker, which ended on the error path and enabled the
\* button again, has not yet ended.
C12_Witness ==
  /\ program = "gui"
  /\ batches = 2
  /\ dialog = "error"
  /\ worker_threads = 2
  /\ ending_threads = 1
  /\ worker_pc = "loop"
  /\ button = "disabled"

\* ------------------------------------------------------------------------
\* Properties of the presentation builders (SpecBuild)
\* ------------------------------------------------------------------------
\* The size the builder's own module gives a text of n characters.
SizeOf(module, n) ==
  IF module = "GUI_BASED" THEN calculate_font_size_GUI_BASED(n)
  ELSE calculate_font_size_scrappingPpptx(n)

\* N + 1 slides: the title slide at 54pt, then one slide per Section, in
\* the Section order, with the Section's text sized by the module's
\* calculate_font_size.
SlidesFollowSections ==
  /\ Len(slides) = Len(build_sections) + 1
  /\ slides[1].kind = "title"
  /\ slides[1].body = build_title
  /\ slides[1].font_size = 54
  /\ \A n \in 1..Len(build_sections) :
       /\ slides[n + 1].kind = "section"
       /\ slides[n + 1].body = build_sections[n][2]
       /\ slides[n + 1].font_size = SizeOf(builder, Len(build_sections[n][2]))

\* C13 as stated: create_lyrics_presentation emits N + 1 slides, the title
\* slide at 54pt and one slide per Section in order, sized by
\* calculate_font_size, with a label heading exactly when the Section's
\* label is non-empty.
C13_Original ==
  slides_made =>
    /\ SlidesFollowSections
    /\ \A n \in 1..Len(build_sections) :
         slides[n + 1].heading # <<>> <=> build_sections[n][1] # <<>>

\* C13, amended: both builders emit N + 1 slides, the title slide at 54pt
\* and one slide per Section in order, sized by their module's
\* calculate_font_size; the builder of scrappingPpptx.py puts the heading
\* "[label]" on a slide exactly when the Section's label is non-empty, the
\* builder of GUI_BASED.py never puts a heading on a slide.
C13_Slides ==
  slides_made =>
    /\ SlidesFollowSections
    /\ \A n \in 1..Len(build_sections) :
         /\ (builder = "scrappingPpptx" /\ build_sections[n][1] # <<>>) =>
              slides[n + 1].heading = <<"[">> \o build_sections[n][1] \o <<"]">>
         /\ (builder = "scrappingPpptx" /\ build_sections[n][1] = <<>>) =>
              slides[n + 1].heading = <<>>
         /\ builder = "GUI_BASED" => slides[n + 1].heading = <<>>

\* The builder of scrappingPpptx.py has made and saved the slides of a
\* Section without a label followed by a longer Section with one.
C13_Witness ==
  /\ slides_made
  /\ ~build_raised
  /\ files # {}
  /\ builder = "scrappingPpptx"
  /\ Len(build_sections) = 2
  /\ build_sections[1][1] = <<>>
  /\ build_sections[2][1] # <<>>
  /\ Len(slides) = 3
  /\ slides[2].font_size = 44
  /\ slides[3].font_size = 36

\* ------------------------------------------------------------------------
\* Agreement of the two parsers (SpecParse)
\* ------------------------------------------------------------------------
\* The text before the first marker is blank and every marker label is
\* non-blank after trimming.
WellLabelled(s) ==
  LET parts == re_split(s)
  IN  /\ strip(parts[1]) = <<>>
      /\ \A k \in 1..Len(parts) : k % 2 = 0 => strip(parts[k]) # <<>>

\* Two markers with nothing but blanks between them.
HasConsecutiveMarkers(s) ==
  LET parts == re_split(s)
  IN  \E k \in 2..(Len(parts) - 1) : k % 2 = 1 /\ strip(parts[k]) = <<>>

\* The last marker has no body.
HasTrailingMarker(s) ==
  LET parts == re_split(s)
  IN  Len(parts) >= 3 /\ strip(parts[Len(parts)]) = <<>>

\* C14: on a lyrics string whose text before the first marker is blank and
\* whose every marker label is non-blank after trimming, the strict parser
\* and the lenient parser return the same Section sequence, also with
\* consecutive markers and with a trailing marker that has no body.
C14_ParsersAgree ==
  (LenientParsed /\ WellLabelled(lyrics_text)) =>
    strict_sections = lenient_sections

\* Both parsers have run on a well-labelled string with two consecutive
\* markers and then a body, and returned a Section.
C14_Witness ==
  /\ LenientParsed
  /\ WellLabelled(lyrics_text)
  /\ HasConsecutiveMarkers(lyrics_text)
  /\ ~HasTrailingMarker(lyrics_text)
  /\ strict_sections # <<>>
  /\ lenient_sections # <<>>

====
